---- MODULE Spec2Model ----
(***************************************************************************)
(* A model of the CSS selector builder of src/src/05-objects-tasks.js:     *)
(* the class CSSBuilder (lines 117-191) and the facade cssSelectorBuilder  *)
(* (lines 193-221).  A state is the heap of the builders constructed so    *)
(* far (the six slots of each builder's `tag`), the observable outcome of  *)
(* the last call (returned builder, returned string or thrown error), and  *)
(* history variables that remember which calls were made on each builder.  *)
(* JavaScript strings are TLA+ strings, JavaScript arrays are sequences.   *)
(***************************************************************************)
EXTENDS Integers, Sequences, FiniteSets, TLC

(* ------------------------------ bounds --------------------------------- *)

\* Number of builders that may be constructed (new CSSBuilder()).
MaxBuilders == 3

\* Number of calls (facade calls and method calls together) of a run.
MaxCalls == 3

\* The string arguments the calls draw from: the empty string, and two
\* distinct non-empty strings so that call order is visible in the output.
Values == {"", "a", "b"}

\* The combinator arguments of combine: one of the symbols, and the
\* descendant combinator, itself a single space.
Combinators == {"+", " "}

Builders == 1..MaxBuilders

(* ------------------------- CSSBuilder: the data ------------------------ *)

\* constructor(): this.tag = { elementName: '', ..., pseudoElement: '' }
constructor ==
  [ elementName   |-> "",
    idName        |-> "",
    classNames    |-> <<>>,
    attributes    |-> <<>>,
    pseudoClasses |-> <<>>,
    pseudoElement |-> "" ]

\* The messages of the two errors of showError.
DuplicateError ==
  "Element, id and pseudo-element should not occur more then one time inside the selector"

OrderError ==
  "Selector parts should be arranged in the following order: element, id, class, attribute, pseudo-class, pseudo-element"

\* showError with the two messages taken for one another.
showError_Swapped(i) == IF i # 0 THEN OrderError ELSE DuplicateError

\* static showError(i = 1): the error the call throws.
showError(i) == IF i # 0 THEN DuplicateError ELSE OrderError

\* Object.values(this.tag): the six slots in the order the constructor
\* creates them.
ObjectValues(t) ==
  << t.elementName, t.idName, t.classNames, t.attributes, t.pseudoClasses,
     t.pseudoElement >>

\* checkOrder(n): Object.values(this.tag).slice(n) reduced to the number of
\* slots of non-zero length (a string's or an array's length).
checkOrder(t, n) ==
  Cardinality({ i \in (n + 1)..6 : Len(ObjectValues(t)[i]) > 0 })

\* A method either returns (error = "") or throws (error = the message);
\* `tag` is the builder's tag when the method is left, and `this` tells
\* whether the method hands the builder it was called on back to the caller
\* (return this).
Return(t) == [ error |-> "", tag |-> t, this |-> TRUE ]

Throw(t, e) == [ error |-> e, tag |-> t, this |-> FALSE ]

(* ------------------------ CSSBuilder: stringify ------------------------ *)

\* Array.prototype.join(sep) on an array of strings.
RECURSIVE join(_, _)
join(s, sep) ==
  IF Len(s) = 0 THEN ""
  ELSE IF Len(s) = 1 THEN s[1]
  ELSE s[1] \o sep \o join(Tail(s), sep)

\* stringify with the id rendered before the element name.
stringify_IdFirst(t) ==
  LET s1 == IF t.idName # "" THEN "#" \o t.idName ELSE ""
      s2 == IF t.elementName # "" THEN s1 \o t.elementName ELSE s1
      s3 == IF Len(t.classNames) > 0
              THEN s2 \o "." \o join(t.classNames, ".") ELSE s2
      s4 == IF Len(t.attributes) > 0
              THEN s3 \o "[" \o join(t.attributes, "][") \o "]" ELSE s3
      s5 == IF Len(t.pseudoClasses) > 0
              THEN s4 \o ":" \o join(t.pseudoClasses, ":") ELSE s4
      s6 == IF t.pseudoElement # "" THEN s5 \o "::" \o t.pseudoElement ELSE s5
  IN  s6

\* stringify(): the selector text of a tag.
stringify(t) ==
  LET s0 == ""
      s1 == IF t.elementName # "" THEN s0 \o t.elementName ELSE s0
      s2 == IF t.idName # "" THEN s1 \o "#" \o t.idName ELSE s1
      s3 == IF Len(t.classNames) > 0
              THEN s2 \o "." \o join(t.classNames, ".") ELSE s2
      s4 == IF Len(t.attributes) > 0
              THEN s3 \o "[" \o join(t.attributes, "][") \o "]" ELSE s3
      s5 == IF Len(t.pseudoClasses) > 0
              THEN s4 \o ":" \o join(t.pseudoClasses, ":") ELSE s4
      s6 == IF t.pseudoElement # "" THEN s5 \o "::" \o t.pseudoElement ELSE s5
  IN  s6

(* ------------------------- CSSBuilder: setters ------------------------- *)

\* element without the duplicate check.
element_NoDuplicateCheck(t, value) ==
  IF checkOrder(t, 1) # 0 THEN Throw(t, showError(0))
  ELSE Return([t EXCEPT !.elementName = value])

\* element with the order check made before the duplicate check.
element_OrderFirst(t, value) ==
  IF checkOrder(t, 0) # 0 THEN Throw(t, showError(0))
  ELSE IF t.elementName # "" THEN Throw(t, showError(1))
  ELSE Return([t EXCEPT !.elementName = value])

element(t, value) ==
  IF t.elementName # "" THEN Throw(t, showError(1))
  ELSE IF checkOrder(t, 0) # 0 THEN Throw(t, showError(0))
  ELSE Return([t EXCEPT !.elementName = value])

\* id with the order check starting at the element slot.
id_CheckFromElement(t, value) ==
  IF t.idName # "" THEN Throw(t, showError(1))
  ELSE IF checkOrder(t, 0) # 0 THEN Throw(t, showError(0))
  ELSE Return([t EXCEPT !.idName = value])

\* id returning a new builder that holds the id, and leaving its own alone.
id_ReturnsCopy(t, value) ==
  IF t.idName # "" THEN Throw(t, showError(1))
  ELSE IF checkOrder(t, 1) # 0 THEN Throw(t, showError(0))
  ELSE [ error |-> "", tag |-> t, this |-> FALSE ]

id(t, value) ==
  IF t.idName # "" THEN Throw(t, showError(1))
  ELSE IF checkOrder(t, 1) # 0 THEN Throw(t, showError(0))
  ELSE Return([t EXCEPT !.idName = value])

\* class with the order check starting one slot too late.
class_CheckFromPseudoClass(t, value) ==
  IF checkOrder(t, 4) # 0 THEN Throw(t, showError(0))
  ELSE Return([t EXCEPT !.classNames = Append(t.classNames, value)])

class(t, value) ==
  IF checkOrder(t, 3) # 0 THEN Throw(t, showError(0))
  ELSE Return([t EXCEPT !.classNames = Append(t.classNames, value)])

\* attr adding the value at the front of the array.
attr_Prepend(t, value) ==
  IF checkOrder(t, 4) # 0 THEN Throw(t, showError(0))
  ELSE Return([t EXCEPT !.attributes = <<value>> \o t.attributes])

attr(t, value) ==
  IF checkOrder(t, 4) # 0 THEN Throw(t, showError(0))
  ELSE Return([t EXCEPT !.attributes = Append(t.attributes, value)])

\* pseudoClass assigning before it checks the order.
pseudoClass_AssignFirst(t, value) ==
  IF checkOrder(t, 5) # 0
    THEN Throw([t EXCEPT !.pseudoClasses = Append(t.pseudoClasses, value)],
               showError(0))
  ELSE Return([t EXCEPT !.pseudoClasses = Append(t.pseudoClasses, value)])

pseudoClass(t, value) ==
  IF checkOrder(t, 5) # 0 THEN Throw(t, showError(0))
  ELSE Return([t EXCEPT !.pseudoClasses = Append(t.pseudoClasses, value)])

pseudoElement(t, value) ==
  IF t.pseudoElement # "" THEN Throw(t, showError(1))
  ELSE Return([t EXCEPT !.pseudoElement = value])

\* combine without the spaces around the combinator.
combine_NoSpaces(t, t1, combinator, t2) ==
  Return([t EXCEPT !.elementName =
            stringify(t1) \o combinator \o stringify(t2)])

\* combine emptying the other slots of the builder.
combine_Reset(t, t1, combinator, t2) ==
  Return([constructor EXCEPT !.elementName =
            stringify(t1) \o " " \o combinator \o " " \o stringify(t2)])

\* combine(selector1, combinator, selector2): t1 and t2 are the tags of the
\* two selectors, which the method stringifies.
combine(t, t1, combinator, t2) ==
  Return([t EXCEPT !.elementName =
            stringify(t1) \o " " \o combinator \o " " \o stringify(t2)])

(* ------------------------------- state --------------------------------- *)

VARIABLES
  created,    \* the builders 1..created have been constructed
  tag,        \* tag[b]: the tag of builder b
  last,       \* the last call and what the caller observed of it
  succeeded,  \* history: succeeded[b] = the setters that returned on b
              \*          when called with a non-empty value
  chain,      \* history: the calls made on b so far, see Chain
  returned,   \* history: returned[b][op] = the number of calls of the
              \*          setter op that returned on b, whatever the value
  combined,   \* history: the builders the facade's combine returned
  ncalls      \* the number of calls made

vars == << created, tag, last, succeeded, chain, returned, combined, ncalls >>

Setters == { "element", "id", "class", "attr", "pseudoClass", "pseudoElement" }

\* The position of a setter's kind in the order of the selector grammar.
Rank(op) ==
  CASE op = "element"       -> 1
    [] op = "id"            -> 2
    [] op = "class"         -> 3
    [] op = "attr"          -> 4
    [] op = "pseudoClass"   -> 5
    [] op = "pseudoElement" -> 6
    [] OTHER                -> 0

\* The kinds that may occur several times in a selector.
Repeatable == { "class", "attr", "pseudoClass" }

\* chain[b] = 0: no call was made on b.  chain[b] = k in 1..6: every call
\* made on b so far was a setter call with a non-empty value, the kinds of
\* the calls were non-decreasing in the grammar order with element, id and
\* pseudoElement called at most once, and the last of them had rank k
\* (stringify calls are not counted).  chain[b] = -1: otherwise.
Chain(c, op, arg) ==
  IF op = "stringify" THEN c
  ELSE IF /\ op \in Setters
          /\ arg # ""
          /\ c >= 0
          /\ \/ Rank(op) > c
             \/ Rank(op) = c /\ op \in Repeatable
       THEN Rank(op)
  ELSE -1

NoCall ==
  [ op |-> "", facade |-> FALSE, self |-> 0, arg |-> "", left |-> 0,
    right |-> 0, error |-> "", ret |-> 0, str |-> "" ]

Init ==
  /\ created = 0
  /\ tag = [b \in Builders |-> constructor]
  /\ last = NoCall
  /\ succeeded = [b \in Builders |-> {}]
  /\ chain = [b \in Builders |-> 0]
  /\ returned = [b \in Builders |-> [op \in Setters |-> 0]]
  /\ combined = {}
  /\ ncalls = 0

\* The call of method op on builder b with result res: the method's effect
\* on the heap and the caller's view of it: the error it threw, the builder
\* it returned (ret, 0 when it is not the receiver) or the string it
\* returned (stringify).
Call(op, facade, b, arg, l, r, res, str) ==
  /\ ncalls' = ncalls + 1
  /\ created' = IF b > created THEN b ELSE created
  /\ tag' = [tag EXCEPT ![b] = res.tag]
  /\ last' = [ op |-> op, facade |-> facade, self |-> b, arg |-> arg,
               left |-> l, right |-> r, error |-> res.error,
               ret |-> IF res.this /\ op # "stringify" THEN b ELSE 0,
               str |-> str ]
  /\ succeeded' =
       [succeeded EXCEPT ![b] =
          IF op \in Setters /\ res.error = "" /\ arg # ""
            THEN @ \cup {op} ELSE @]
  /\ chain' = [chain EXCEPT ![b] = Chain(@, op, arg)]
  /\ returned' =
       IF op \in Setters /\ res.error = ""
         THEN [returned EXCEPT ![b][op] = @ + 1] ELSE returned
  /\ combined' =
       IF op = "combine" /\ facade /\ res.error = ""
         THEN combined \cup {b} ELSE combined

(* ------------------ method calls on a constructed builder -------------- *)

\* Each action is one call, made while the run has calls left, of a method
\* on a builder that was constructed, with arguments drawn from Values,
\* Combinators and the constructed builders.

Builder_element ==
  /\ ncalls < MaxCalls
  /\ \E b \in 1..created, value \in Values :
       Call("element", FALSE, b, value, 0, 0, element(tag[b], value), "")

Builder_id ==
  /\ ncalls < MaxCalls
  /\ \E b \in 1..created, value \in Values :
       Call("id", FALSE, b, value, 0, 0, id(tag[b], value), "")

Builder_class ==
  /\ ncalls < MaxCalls
  /\ \E b \in 1..created, value \in Values :
       Call("class", FALSE, b, value, 0, 0, class(tag[b], value), "")

Builder_attr ==
  /\ ncalls < MaxCalls
  /\ \E b \in 1..created, value \in Values :
       Call("attr", FALSE, b, value, 0, 0, attr(tag[b], value), "")

Builder_pseudoClass ==
  /\ ncalls < MaxCalls
  /\ \E b \in 1..created, value \in Values :
       Call("pseudoClass", FALSE, b, value, 0, 0,
            pseudoClass(tag[b], value), "")

Builder_pseudoElement ==
  /\ ncalls < MaxCalls
  /\ \E b \in 1..created, value \in Values :
       Call("pseudoElement", FALSE, b, value, 0, 0,
            pseudoElement(tag[b], value), "")

Builder_combine ==
  /\ ncalls < MaxCalls
  /\ \E b, l, r \in 1..created, c \in Combinators :
       Call("combine", FALSE, b, c, l, r,
            combine(tag[b], tag[l], c, tag[r]), "")

\* stringify resetting the builder once it has rendered it.
Builder_stringify_Reset ==
  /\ ncalls < MaxCalls
  /\ \E b \in 1..created :
       Call("stringify", FALSE, b, "", 0, 0, Return(constructor),
            stringify(tag[b]))

Builder_stringify ==
  /\ ncalls < MaxCalls
  /\ \E b \in 1..created :
       Call("stringify", FALSE, b, "", 0, 0, Return(tag[b]),
            stringify(tag[b]))

(* --------------------- the facade cssSelectorBuilder ------------------- *)

\* The facade keeping one builder for all its calls.
newCSSBuilder_Shared(n) == 1

\* new CSSBuilder(): the builder a facade call constructs, when n builders
\* exist: a new one.
newCSSBuilder(n) == n + 1

Facade_element ==
  /\ ncalls < MaxCalls /\ created < MaxBuilders
  /\ \E value \in Values :
       Call("element", TRUE, newCSSBuilder(created), value, 0, 0,
            element(constructor, value), "")

Facade_id ==
  /\ ncalls < MaxCalls /\ created < MaxBuilders
  /\ \E value \in Values :
       Call("id", TRUE, newCSSBuilder(created), value, 0, 0,
            id(constructor, value), "")

Facade_class ==
  /\ ncalls < MaxCalls /\ created < MaxBuilders
  /\ \E value \in Values :
       Call("class", TRUE, newCSSBuilder(created), value, 0, 0,
            class(constructor, value), "")

Facade_attr ==
  /\ ncalls < MaxCalls /\ created < MaxBuilders
  /\ \E value \in Values :
       Call("attr", TRUE, newCSSBuilder(created), value, 0, 0,
            attr(constructor, value), "")

Facade_pseudoClass ==
  /\ ncalls < MaxCalls /\ created < MaxBuilders
  /\ \E value \in Values :
       Call("pseudoClass", TRUE, newCSSBuilder(created), value, 0, 0,
            pseudoClass(constructor, value), "")

Facade_pseudoElement ==
  /\ ncalls < MaxCalls /\ created < MaxBuilders
  /\ \E value \in Values :
       Call("pseudoElement", TRUE, newCSSBuilder(created), value, 0, 0,
            pseudoElement(constructor, value), "")

\* The facade combining into its first argument instead of a new builder.
Facade_combine_IntoLeft ==
  /\ ncalls < MaxCalls /\ created < MaxBuilders
  /\ \E l, r \in 1..created, c \in Combinators :
       Call("combine", TRUE, l, c, l, r,
            combine(tag[l], tag[l], c, tag[r]), "")

Facade_combine ==
  /\ ncalls < MaxCalls /\ created < MaxBuilders
  /\ \E l, r \in 1..created, c \in Combinators :
       Call("combine", TRUE, newCSSBuilder(created), c, l, r,
            combine(constructor, tag[l], c, tag[r]), "")

(* ----------------------------- specification --------------------------- *)

Next ==
  \/ Builder_element
  \/ Builder_id
  \/ Builder_class
  \/ Builder_attr
  \/ Builder_pseudoClass
  \/ Builder_pseudoElement
  \/ Builder_combine
  \/ Builder_stringify
  \/ Facade_element
  \/ Facade_id
  \/ Facade_class
  \/ Facade_attr
  \/ Facade_pseudoClass
  \/ Facade_pseudoElement
  \/ Facade_combine

Spec == Init /\ [][Next]_vars

(* -------------------------------- claims -------------------------------- *)

\* The setters of which a selector holds at most one fragment.
Single == { "element", "id", "pseudoElement" }

\* C1: once a setter call with a non-empty value has succeeded on a builder,
\* every later setter call with a non-empty value of a kind that is earlier
\* in the order element < id < class < attribute < pseudo-class <
\* pseudo-element fails with an error on that builder (so the kinds of the
\* successful calls of a chain are non-decreasing).
C1_EarlierKindFails ==
  ( /\ last.op \in Setters
    /\ last.arg # ""
    /\ \E k \in succeeded[last.self] : Rank(k) > Rank(last.op) )
  => last.error # ""

\* An id call that is refused because a class was added before it.
C1_Witness ==
  /\ last.op = "id" /\ last.arg # ""
  /\ "class" \in succeeded[last.self]
  /\ last.error = OrderError

\* C2: with non-empty values, a call of element, of id or of pseudoElement
\* on a builder on which a call of the same setter has succeeded fails with
\* the duplicate error, whatever calls were made in between and whatever
\* other slots are populated.
C2_SecondOccurrenceFails ==
  [][ ( /\ last'.op \in Single
        /\ last'.arg # ""
        /\ last'.op \in succeeded[last'.self] )
      => last'.error = DuplicateError ]_vars

\* A second element call, refused as a duplicate although an id was added
\* after the first one.
C2_Witness ==
  /\ last.op = "element" /\ last.arg # ""
  /\ { "element", "id" } \subseteq succeeded[last.self]
  /\ last.error = DuplicateError

\* C3: the builder the facade's combine(X, c, Y) returns stringifies to
\* X.stringify(), one space, c, one space, Y.stringify(), also when X or Y
\* is the result of a combine.
C3_CombineComposition ==
  ( last.op = "combine" /\ last.facade )
  => /\ last.error = ""
     /\ last.ret = last.self
     /\ stringify(tag[last.ret]) =
          stringify(tag[last.left]) \o " " \o last.arg \o " "
            \o stringify(tag[last.right])

\* combine(combine(element('a'), '+', element('a')), ' ', element('a')),
\* on one element('a'): a nested combination with the descendant combinator.
C3_Witness ==
  /\ last.op = "combine" /\ last.facade
  /\ last.self = 3 /\ last.left = 2 /\ last.right = 1 /\ last.arg = " "
  /\ tag[2].elementName = "a + a"
  /\ stringify(tag[3]) = "a + a   a"

\* The fragments of a sequence, each between pre and post, one after another.
RECURSIVE Each(_, _, _)
Each(s, pre, post) ==
  IF Len(s) = 0 THEN ""
  ELSE pre \o s[1] \o post \o Each(Tail(s), pre, post)

\* The selector text as the specification words it.
Rendering(t) ==
  (IF t.elementName # "" THEN t.elementName ELSE "")
  \o (IF t.idName # "" THEN "#" \o t.idName ELSE "")
  \o Each(t.classNames, ".", "")
  \o Each(t.attributes, "[", "]")
  \o Each(t.pseudoClasses, ":", "")
  \o (IF t.pseudoElement # "" THEN "::" \o t.pseudoElement ELSE "")

\* C4: stringify returns the concatenation of elementName if set, '#' and
\* idName if set, '.' and the classNames joined by '.', each attribute in
\* '[' and ']', each pseudo-class after ':', '::' and pseudoElement if set,
\* and the empty string for a builder with no populated slot.
C4_StringifyRendering ==
  last.op = "stringify"
  => /\ last.error = ""
     /\ last.str = Rendering(tag[last.self])
     /\ tag[last.self] = constructor => last.str = ""

\* stringify of a builder holding two attributes, each in its own brackets.
C4_Witness ==
  /\ last.op = "stringify"
  /\ tag[last.self].attributes = << "a", "b" >>
  /\ last.str = "[a][b]"

\* C5: on a builder a facade setter call created, a sequence of setter calls
\* with non-empty values whose kinds are non-decreasing in the grammar order,
\* with at most one element, one id and one pseudoElement call, succeeds at
\* every call.
C5_OrderedChainSucceeds ==
  ( last.op \in Setters /\ chain[last.self] > 0 )
  => /\ last.error = ""
     /\ last.ret = last.self

\* A chain of three kinds in the grammar order, the last call accepted.
C5_Witness ==
  /\ last.op \in Setters /\ chain[last.self] > 0
  /\ Cardinality(succeeded[last.self]) = 3
  /\ last.error = ""

\* The text one fragment of a repeatable kind adds to the selector.
Piece(op, value) ==
  CASE op = "class"       -> "." \o value
    [] op = "attr"        -> "[" \o value \o "]"
    [] op = "pseudoClass" -> ":" \o value

\* C6: a class call that follows a successful class call on the same builder
\* (and likewise attr after attr, pseudoClass after pseudoClass) succeeds,
\* equal values included, and adds its fragment at the end of the text the
\* builder stringifies to, so that the values are rendered in call order.
C6_RepetitionKeepsCallOrder ==
  [][ ( /\ last.op \in Repeatable
        /\ last.error = ""
        /\ last'.op = last.op
        /\ last'.self = last.self
        /\ ~ last'.facade )
      => /\ last'.error = ""
         /\ stringify(tag'[last.self]) =
              stringify(tag[last.self]) \o Piece(last'.op, last'.arg) ]_vars

\* Three attr calls in a row on one builder, two of them with equal values.
C6_Witness ==
  /\ last.op = "attr" /\ last.error = ""
  /\ tag[last.self].attributes = << "b", "a", "a" >>
  /\ stringify(tag[last.self]) = "[b][a][a]"

\* C7: stringify leaves the six slots of every builder as they were and
\* throws nothing, and a stringify call that follows a stringify call on
\* the same builder returns the same string; the builder stays mutable, the
\* outcome of a later call being a function of the unchanged slots.
C7_StringifyReadsOnly ==
  [][ last'.op = "stringify"
      => /\ tag' = tag
         /\ last'.error = ""
         /\ ( last.op = "stringify" /\ last.self = last'.self )
              => last'.str = last.str ]_vars

\* element('a') followed by two stringify calls (chain counts no stringify
\* call, and is -1 after any other call that leaves the slots as they are).
C7_Witness ==
  /\ ncalls = 3 /\ created = 1
  /\ chain[1] = 1 /\ succeeded[1] = { "element" }
  /\ last.op = "stringify" /\ last.str = "a"

\* C8: a setter call that fails, with either error, leaves the six slots of
\* every builder as they were before the call.
C8_FailedCallChangesNothing ==
  [][ ( last'.op \in Setters /\ last'.error # "" )
      => ( tag' = tag /\ created' = created /\ last'.ret = 0 ) ]_vars

\* A pseudoClass call refused on a builder that holds a pseudo-element.
C8_Witness ==
  /\ last.op = "pseudoClass" /\ last.error = OrderError
  /\ tag[last.self].pseudoElement # ""
  /\ tag[last.self].pseudoClasses = <<>>

\* C9: combine(left, c, right) changes no slot of left or of right: the
\* facade's combine changes neither, and the method changes no builder but
\* its receiver.
C9_CombineKeepsOperands ==
  [][ last'.op = "combine"
      => /\ last'.facade
              => /\ tag'[last'.left] = tag[last'.left]
                 /\ tag'[last'.right] = tag[last'.right]
         /\ \A b \in { last'.left, last'.right } :
              b # last'.self => tag'[b] = tag[b] ]_vars

\* The facade's combine of two builders that hold fragments of their own.
C9_Witness ==
  /\ last.op = "combine" /\ last.facade /\ last.self = 3
  /\ last.left = 1 /\ last.right = 2
  /\ tag[1].idName = "a" /\ tag[2].classNames = << "b" >>
  /\ tag[3].elementName = "#a + .b"

\* C10: a facade call returns a builder that did not exist before, whose
\* slots hold what the call put into an empty builder, and no call changes
\* a slot of a builder other than its receiver: two chains do not share
\* slot state.
C10_ChainsAreSeparate ==
  [][ /\ last'.facade
          => /\ last'.self = created + 1
             /\ created' = created + 1
             /\ last'.error = ""
             /\ last'.ret = last'.self
             /\ last'.op \in Setters =>
                  stringify(tag'[last'.self]) =
                    Rendering([constructor EXCEPT
                      !.elementName   = IF last'.op = "element"
                                          THEN last'.arg ELSE @,
                      !.idName        = IF last'.op = "id"
                                          THEN last'.arg ELSE @,
                      !.classNames    = IF last'.op = "class"
                                          THEN << last'.arg >> ELSE @,
                      !.attributes    = IF last'.op = "attr"
                                          THEN << last'.arg >> ELSE @,
                      !.pseudoClasses = IF last'.op = "pseudoClass"
                                          THEN << last'.arg >> ELSE @,
                      !.pseudoElement = IF last'.op = "pseudoElement"
                                          THEN last'.arg ELSE @])
      /\ \A b \in Builders : b # last'.self => tag'[b] = tag[b] ]_vars

\* Two chains interleaved: a second facade call, made after the first chain
\* was extended, starts from an empty builder.
C10_Witness ==
  /\ created = 2 /\ last.facade /\ last.self = 2 /\ last.op = "class"
  /\ tag[1].elementName = "a" /\ tag[1].idName = "b"
  /\ stringify(tag[2]) = ".a"

\* The slot of the setter op holds value as its (last) fragment.
Holds(t, op, value) ==
  CASE op = "element"       -> t.elementName = value
    [] op = "id"            -> t.idName = value
    [] op = "class"         ->
         Len(t.classNames) > 0 /\ t.classNames[Len(t.classNames)] = value
    [] op = "attr"          ->
         Len(t.attributes) > 0 /\ t.attributes[Len(t.attributes)] = value
    [] op = "pseudoClass"   ->
         Len(t.pseudoClasses) > 0
           /\ t.pseudoClasses[Len(t.pseudoClasses)] = value
    [] op = "pseudoElement" -> t.pseudoElement = value

\* C11: every call of element, id, class, attr, pseudoClass, pseudoElement
\* or combine that does not throw returns the builder it was called on, a
\* constructed builder, and a setter's fragment is then in that builder:
\* the chain a facade call starts accumulates into one builder.
C11_ReturnsThis ==
  ( last.op \in Setters \cup { "combine" } /\ last.error = "" )
  => /\ last.ret = last.self
     /\ last.ret \in 1..created
     /\ last.op \in Setters => Holds(tag[last.ret], last.op, last.arg)

\* element('a').id('b').class('a'): three calls, one builder.
C11_Witness ==
  /\ created = 1 /\ ncalls = 3
  /\ last.op = "class" /\ last.ret = 1
  /\ stringify(tag[1]) = "a#b.a"

\* C12: for every string argument, the empty string included, elementName,
\* idName and pseudoElement are each set at most once in a builder's
\* lifetime: once a call of element (of id, of pseudoElement) has returned
\* on a builder, every further call of that setter on the builder fails.
C12_SetAtMostOnce ==
  \A b \in 1..created : \A op \in Single : returned[b][op] <= 1

\* A slot of a kind later than the setter op's is populated in the tag.
LaterPopulated(t, op) ==
  \E i \in (Rank(op) + 1)..6 : Len(ObjectValues(t)[i]) > 0

\* The slot of the setter op is populated in the tag.
OwnPopulated(t, op) == Len(ObjectValues(t)[Rank(op)]) > 0

\* C13 as stated: every setter call made while a slot of a strictly later
\* kind is populated fails with the order error, whatever the state of the
\* setter's own slot.
C13_LaterKindGivesOrderError ==
  [][ ( /\ last'.op \in Setters
        /\ LaterPopulated(tag[last'.self], last'.op) )
      => last'.error = OrderError ]_vars

\* C13 as amended: every setter call made while a slot of a strictly later
\* kind is populated fails; with the duplicate error when the setter is
\* element or id and its own slot is populated, with the order error
\* otherwise.
C13_LaterKindFails ==
  [][ ( /\ last'.op \in Setters
        /\ LaterPopulated(tag[last'.self], last'.op) )
      => last'.error =
           IF last'.op \in { "element", "id" }
                /\ OwnPopulated(tag[last'.self], last'.op)
             THEN DuplicateError
             ELSE OrderError ]_vars

\* An id call on a builder that holds a pseudo-element and no id, refused
\* with the order error.
C13_Witness ==
  /\ last.op = "id" /\ last.error = OrderError
  /\ tag[last.self].idName = ""
  /\ tag[last.self].pseudoElement # ""

\* C14 as stated: after combine was invoked on a builder, in whatever state
\* the builder was, elementName is its only populated slot and stringify
\* returns exactly elementName.
C14_CombineOverwrites ==
  last.op = "combine"
  => /\ tag[last.self] =
          [constructor EXCEPT !.elementName = tag[last.self].elementName]
     /\ stringify(tag[last.self]) = tag[last.self].elementName

\* C14 as amended: combine(left, c, right) invoked on a builder in any state
\* puts '<left> <c> <right>' into elementName and leaves the other five
\* slots as they were; stringify then returns that string followed by the
\* rendering of the id, class, attribute, pseudo-class and pseudo-element
\* content the builder held before the call.
C14_CombineSetsElementNameOnly ==
  [][ last'.op = "combine"
      => LET b   == last'.self
             syn == stringify(tag[last'.left]) \o " " \o last'.arg \o " "
                      \o stringify(tag[last'.right])
         IN  /\ last'.error = ""
             /\ tag'[b] = [tag[b] EXCEPT !.elementName = syn]
             /\ stringify(tag'[b]) =
                  syn \o Rendering([tag[b] EXCEPT !.elementName = ""]) ]_vars

\* id('b'), element('a'), then combine of the second builder with itself
\* invoked on the first: the id stays behind the combined string.
C14_Witness ==
  /\ last.op = "combine" /\ ~ last.facade
  /\ last.self = 1 /\ last.left = 2 /\ last.right = 2
  /\ tag[1].idName = "b"
  /\ stringify(tag[1]) = "a + a#b"

\* The outcome of the setter op on a tag by the duplicate rule (element, id
\* and pseudoElement at most once) and the order rule (no later kind
\* populated): the error, or "" when the call is accepted.
Usual(t, op) ==
  IF op \in Single /\ OwnPopulated(t, op) THEN DuplicateError
  ELSE IF LaterPopulated(t, op) THEN OrderError
  ELSE ""

\* C15: on a builder the facade's combine returned, a call of element fails
\* with the duplicate error, whatever its value and whenever it is made; a
\* call of id, class, attr, pseudoClass or pseudoElement is accepted or
\* refused by the usual duplicate and order rules, an accepted fragment is
\* in the builder, and stringify renders the fragments after the whole
\* combined string, which stays in elementName.
C15_AfterFacadeCombine ==
  [][ ( /\ last'.op \in Setters
        /\ ~ last'.facade
        /\ last'.self \in combined )
      => LET b == last'.self
         IN  /\ last'.op = "element" => last'.error = DuplicateError
             /\ last'.op # "element"
                  => /\ last'.error = Usual(tag[b], last'.op)
                     /\ last'.error = ""
                          => Holds(tag'[b], last'.op, last'.arg)
             /\ tag[b].elementName # ""
             /\ tag'[b].elementName = tag[b].elementName
             /\ stringify(tag'[b]) =
                  tag[b].elementName
                    \o Rendering([tag'[b] EXCEPT !.elementName = ""]) ]_vars

\* combine(element('a'), '+', element('a')).id('b'): the id is accepted and
\* rendered behind the right-hand selector.
C15_Witness ==
  /\ last.op = "id" /\ last.error = ""
  /\ last.self = 2 /\ 2 \in combined
  /\ stringify(tag[2]) = "a + a#b"

====
